---- MODULE Spec2Model ----
(***************************************************************************)
(* Model of the Zanvar SQL desktop client: the application object          *)
(* (SQLToolApp), its message channel, the connection-attempt thread and    *)
(* the query-execution threads (QueryExecutor.execute_query) that talk to  *)
(* the database driver through SQLConnector.get_connection.                *)
(*                                                                         *)
(* The driver (pyodbc), the dialogs and the operator are the environment:  *)
(* every driver call returns one of the outcomes the driver can produce,   *)
(* every dialog one of its answers.                                        *)
(***************************************************************************)
EXTENDS Integers, Sequences, FiniteSets, TLC

(***************************************************************************)
(* Bounds of the exploration.                                              *)
(***************************************************************************)
\* databases the server lists (get_databases), when one execute_query call is explored
NumDbs == 2
\* databases the server lists, when the UI thread is explored as well
AppDbs == 1
\* driver faults injected into one execute_query call explored alone
MaxFaults == 2
\* driver faults injected into one execute_query call explored with the UI thread
PollFaults == 1
\* executions started in one run of the application
MaxExecs == 2
\* connection attempts started in one run of the application
MaxConnects == 2
\* connection attempts and executions started in one run of the application
MaxStarts == 3
\* fragments typed into the editor before the validator is called on the text
MaxFragments == 3

\* Export Results clicks that are told apart
MaxExports == 2
\* add_to_history calls explored from each starting history
MaxAdds == 3
\* rows the server returns for the statement whose result is formatted
MaxRows == 1001

\* cursor.fetchmany(1000)
FETCH_BATCH == 1000
\* display_rows = rows[:100]
DISPLAY_ROWS == 100

\* ConfigManager.MAX_HISTORY_ENTRIES
MAX_HISTORY_ENTRIES == 50

(***************************************************************************)
(* Query texts.  A text is a sequence of characters; the editor holds one  *)
(* of the texts of QueryTexts.                                             *)
(***************************************************************************)
\* str.lower() of one character (the texts explored are ASCII)
LowerOf(c) ==
    CASE c = "A" -> "a" [] c = "B" -> "b" [] c = "C" -> "c" [] c = "D" -> "d"
      [] c = "E" -> "e" [] c = "F" -> "f" [] c = "G" -> "g" [] c = "H" -> "h"
      [] c = "I" -> "i" [] c = "J" -> "j" [] c = "K" -> "k" [] c = "L" -> "l"
      [] c = "M" -> "m" [] c = "N" -> "n" [] c = "O" -> "o" [] c = "P" -> "p"
      [] c = "Q" -> "q" [] c = "R" -> "r" [] c = "S" -> "s" [] c = "T" -> "t"
      [] c = "U" -> "u" [] c = "V" -> "v" [] c = "W" -> "w" [] c = "X" -> "x"
      [] c = "Y" -> "y" [] c = "Z" -> "z"
      [] OTHER -> c

\* str.lower()
Lower(s) == [k \in 1..Len(s) |-> LowerOf(s[k])]

IsSpace(c) == c \in {" ", "\t", "\n"}

\* str.strip()
RECURSIVE LStrip(_)
LStrip(s) == IF s # <<>> /\ IsSpace(Head(s)) THEN LStrip(Tail(s)) ELSE s

RECURSIVE RStrip(_)
RStrip(s) ==
    IF s # <<>> /\ IsSpace(s[Len(s)]) THEN RStrip(SubSeq(s, 1, Len(s) - 1)) ELSE s

Strip(s) == LStrip(RStrip(s))

\* keyword in text
Contains(s, kw) ==
    \E k \in 1..(Len(s) - Len(kw) + 1) : SubSeq(s, k, k + Len(kw) - 1) = kw

destructive_keywords ==
    << <<"d","r","o","p"," ","t","a","b","l","e">>,
       <<"d","r","o","p"," ","d","a","t","a","b","a","s","e">>,
       <<"t","r","u","n","c","a","t","e"," ","t","a","b","l","e">>,
       <<"d","e","l","e","t","e"," ","f","r","o","m">>,
       <<"a","l","t","e","r"," ","t","a","b","l","e">>,
       <<"u","p","d","a","t","e"," ">> >>

\* variant: the text is searched without lower()
contains_dangerous_sql_CaseSensitive(query) ==
    \E k \in 1..Len(destructive_keywords) :
        Contains(query, destructive_keywords[k])

\* SQLValidator.contains_dangerous_sql
contains_dangerous_sql(query) ==
    \E k \in 1..Len(destructive_keywords) :
        Contains(Lower(query), destructive_keywords[k])

\* sqlparse.split followed by the strip/non-empty filter of execute_query:
\* the text is cut after every ';', pieces are stripped, empty ones dropped.
RECURSIVE SplitAt(_, _)
SplitAt(s, cur) ==
    IF s = <<>> THEN <<cur>>
    ELSE IF Head(s) = ";" THEN <<Append(cur, ";")>> \o SplitAt(Tail(s), <<>>)
    ELSE SplitAt(Tail(s), Append(cur, Head(s)))

RECURSIVE NonEmptyStripped(_)
NonEmptyStripped(ps) ==
    IF ps = <<>> THEN <<>>
    ELSE IF Strip(Head(ps)) # <<>>
         THEN <<Strip(Head(ps))>> \o NonEmptyStripped(Tail(ps))
         ELSE NonEmptyStripped(Tail(ps))

Statements(query) == NonEmptyStripped(SplitAt(query, <<>>))

\* the texts the operator types into the editor
QueryTexts ==
    << <<>>,
       <<"s","e","l","e","c","t"," ","1",";"," ","S","E","L","E","C","T"," ","2">>,
       <<"U","p","d","a","t","e"," ","t",";","\n","s","e","l","e","c","t"," ","1",";">> >>

QueryIds == 1..Len(QueryTexts)

\* UIBuilder.get_query_text: the editor content, stripped
get_query_text(q) == Strip(QueryTexts[q])


(***************************************************************************)
(* State.                                                                  *)
(***************************************************************************)
VARIABLES
    alive,                  \* the process runs (root.mainloop has not ended)
    screen,                 \* "connection" | "main": the frame that is packed
    sql_connector,          \* SQLToolApp.sql_connector is not None
    query_executor,         \* 0 (None) or the execution whose executor it is
    current_server_config,  \* 0 (None) or the connection attempt whose inputs it holds
    current_query_log,      \* 0 (None) or the execution whose log it is
    query_running,          \* SQLToolApp.query_running
    connect_button,         \* state of UIBuilder.connect_button
    run_query_btn,          \* state of UIBuilder.run_query_btn
    save_log_btn,           \* state of UIBuilder.save_log_btn
    db_vars,                \* UIBuilder.db_vars: one BooleanVar per listed database
    db_checkbuttons,        \* UIBuilder.db_checkbuttons: per listed database, its label
                            \* shows the checked symbol
    select_all_var,         \* UIBuilder.select_all_var
    db_listed,              \* the packed main frame shows one checkbox per entry of db_vars
    query_history,          \* ConfigManager.query_history (the query texts)
    history_file,           \* query_history.pkl: its content, and how the session's
                            \* save_history call ended ("none" | "written" | "failed")
    result_text,            \* the result console: what was appended to it
    message_queue,          \* SQLToolApp.message_queue (FIFO)
    conn_thread,            \* the threads of _attempt_connection_thread, by attempt:
                            \* "idle" (none) | "test" | "save_last_login"
    last_login,             \* last_login.json: 0 (no file) or the attempt whose server
                            \* and username it holds
    thr,                    \* the threads of QueryExecutor.execute_query, by execution
    confirmed,              \* per execution: the destructive-query dialog was answered yes
    nexec,                  \* executions started so far
    nconnect,               \* connection attempts started so far
    server_dbs,             \* number of databases the server lists
    faults,                 \* driver faults injected so far
    fault_budget,           \* driver faults the exploration injects
    call                    \* a function of the program called on its own: arguments, result

vars == << alive, screen, sql_connector, query_executor, current_server_config,
           current_query_log, query_running, connect_button, run_query_btn,
           save_log_btn, db_vars, db_checkbuttons, select_all_var, db_listed, query_history,
           history_file, result_text, message_queue, conn_thread, last_login, thr, confirmed,
           nexec, nconnect, server_dbs, faults, fault_budget, call >>

\* what no step of the application changes
envVars == << server_dbs, fault_budget, call >>

\* the application's state, which a function called on its own leaves alone
progVars == << alive, screen, sql_connector, query_executor, current_server_config,
               current_query_log, query_running, connect_button, run_query_btn,
               save_log_btn, db_vars, db_checkbuttons, select_all_var, db_listed, query_history,
               history_file, result_text, message_queue, conn_thread, last_login, thr,
               confirmed, nexec, nconnect, server_dbs, faults, fault_budget >>

\* the connection attempts of one run
ConnIds == 1..MaxConnects

\* no function is being called on its own
NoCall == [op |-> "none"]

appVars == << screen, sql_connector, query_executor, current_server_config,
              current_query_log, query_running, connect_button, run_query_btn,
              save_log_btn, db_vars, db_checkbuttons, select_all_var, db_listed, query_history,
              result_text >>

ExecIds == 1..MaxExecs

\* the locals of an execute_query call that has not started or has returned
IdleThread(pc) ==
    [ pc |-> pc, query |-> 0, databases |-> <<>>, db_index |-> 0, i |-> 0,
      conn |-> 0, nconn |-> 0, pending |-> "none",
      db_results |-> <<>>, all_results |-> <<>>, k |-> 0, log |-> <<>>,
      successful_executions |-> 0, failed_executions |-> 0, total_rows |-> 0,
      done_puts |-> 0, trace |-> <<>> ]

\* SQLToolApp.__init__
Constructed ==
    /\ alive = TRUE
    /\ screen = "connection"
    /\ sql_connector = FALSE
    /\ query_executor = 0
    /\ current_server_config = 0
    /\ current_query_log = 0
    /\ query_running = FALSE
    /\ connect_button = "normal"
    /\ run_query_btn = "none"
    /\ save_log_btn = "none"
    /\ db_vars = <<>>
    /\ db_checkbuttons = <<>>
    /\ select_all_var = FALSE
    /\ db_listed = FALSE
    /\ query_history = <<>>
    /\ history_file = [content |-> <<>>, save |-> "none"]
    /\ result_text = <<>>
    /\ message_queue = <<>>
    /\ conn_thread = [a \in ConnIds |-> "idle"]
    /\ last_login = 0
    /\ thr = [e \in ExecIds |-> IdleThread("idle")]
    /\ confirmed = [e \in ExecIds |-> FALSE]
    /\ nexec = 0
    /\ nconnect = 0
    /\ server_dbs = AppDbs
    /\ faults = 0
    /\ fault_budget = 0

Init == Constructed /\ call = NoCall

(***************************************************************************)
(* QueryExecutor.execute_query, one action per step of the thread.         *)
(***************************************************************************)
Msg(type, e, data) == [type |-> type, exec |-> e, data |-> data]

\* cursor.description is set: the statement returns a result set (a SELECT)
ReturnsRows(stmt) ==
    Len(stmt) >= 6 /\ SubSeq(Lower(stmt), 1, 6) = <<"s","e","l","e","c","t">>

\* what the driver reports for a statement that returned: len(rows), cursor.rowcount
RowCounts == {2}
AffectedRows == {1}

\* the exception classes the two outer handlers tell apart
ExcClasses == {"OperationalError", "Exception"}

\* statements = [s.strip() for s in sqlparse.split(query) if s.strip()], per text
statements == [q \in QueryIds |-> Statements(get_query_text(q))]

NumStatements(r) == Len(statements[r.query])

\* the statement the inner loop is at
CurStatement(r) == statements[r.query][r.i]

\* the database the loop is at
CurDb(r) == r.databases[r.db_index]

\* for db_index, db in enumerate(databases): the next iteration, or the end of the loop
NextDb(r) ==
    IF r.db_index < Len(r.databases)
    THEN [r EXCEPT !.db_index = r.db_index + 1, !.pc = "db_begin", !.i = 0,
                   !.pending = "none", !.db_results = <<>>]
    ELSE [r EXCEPT !.pc = "summary", !.i = 0, !.pending = "none", !.db_results = <<>>]

\* variant: the loop leaves out the last statement
NextStatement_StopsEarly(r) ==
    IF r.i + 1 < NumStatements(r)
    THEN [r EXCEPT !.i = r.i + 1, !.pc = "stmt"]
    ELSE [r EXCEPT !.pc = "commit"]

\* for i, statement in enumerate(statements, 1): the next iteration, or the commit
NextStatement(r) ==
    IF r.i < NumStatements(r)
    THEN [r EXCEPT !.i = r.i + 1, !.pc = "stmt"]
    ELSE [r EXCEPT !.pc = "commit"]

\* the two outer handlers (except pyodbc.OperationalError / except Exception)
ErrorBlock(r, cls) ==
    [ db |-> CurDb(r), idx |-> r.db_index - 1,
      kind |-> IF cls = "OperationalError" THEN "connection_error" ELSE "unexpected_error",
      results |-> <<>> ]

\* variant: the handler counts one failure, not one per statement
Handler_CountsOne(r, cls) ==
    [r EXCEPT !.all_results = Append(r.all_results, ErrorBlock(r, cls)),
              !.failed_executions = r.failed_executions + 1,
              !.log = Append(r.log, [database |-> CurDb(r), statement_num |-> 0,
                                      success |-> FALSE, rowcount |-> 0,
                                      error |-> TRUE])]

Handler(r, cls) ==
    [r EXCEPT !.all_results = Append(r.all_results, ErrorBlock(r, cls)),
              !.failed_executions = r.failed_executions + NumStatements(r),
              !.log = Append(r.log, [database |-> CurDb(r), statement_num |-> 0,
                                      success |-> FALSE, rowcount |-> 0,
                                      error |-> TRUE])]

\* the success branch of the statement loop, up to the row_count message
Succeeded(r, desc, rows) ==
    [r EXCEPT !.db_results = Append(r.db_results, [stmt |-> r.i, success |-> TRUE]),
              !.successful_executions = r.successful_executions + 1,
              !.log = Append(r.log, [database |-> CurDb(r), statement_num |-> r.i,
                                      success |-> TRUE, rowcount |-> rows,
                                      error |-> FALSE]),
              !.total_rows = IF desc THEN r.total_rows + rows ELSE r.total_rows]

\* except pyodbc.Error inside the statement loop
StatementFailed(r) ==
    [r EXCEPT !.db_results = Append(r.db_results, [stmt |-> r.i, success |-> FALSE]),
              !.failed_executions = r.failed_executions + 1,
              !.log = Append(r.log, [database |-> CurDb(r), statement_num |-> r.i,
                                      success |-> FALSE, rowcount |-> 0,
                                      error |-> TRUE])]

\* the record of what the thread did, in program order: driver calls
\* ("open", "open_failed", "send", "returned", "commit", "close") and puts
Event(ev, db, i, conn, res) == [ev |-> ev, db |-> db, i |-> i, conn |-> conn, res |-> res]
PutEvent(m) ==
    Event("put", IF m.type = "result" /\ m.data.kind # "summary" THEN m.data.db ELSE 0,
          0, 0,
          IF m.type = "result" THEN (IF m.data.kind = "summary" THEN "summary" ELSE "block")
          ELSE m.type)
Ev(r, ev) == [r EXCEPT !.trace = Append(r.trace, ev)]

\* the exploration's budget of driver faults
CanFault == faults < fault_budget
Faulted == faults' = faults + 1
NoFault == UNCHANGED faults

Put(m) == message_queue' = Append(message_queue, m)

\* what a step of an executor thread leaves alone
ExecFrame ==
    UNCHANGED << alive, appVars, history_file, conn_thread, confirmed, nexec,
                 nconnect, last_login, envVars >>

\* variant: the position is db_index, counted from 0
ExecStatus_FromZero(e) ==
    /\ alive /\ thr[e].pc = "db_begin"
    /\ LET r == thr[e]
           m == Msg("status", e, [db |-> CurDb(r), pos |-> r.db_index - 1, of |-> Len(r.databases)])
       IN /\ Put(m)
          /\ thr' = [thr EXCEPT ![e] = Ev([r EXCEPT !.pc = "connect"], PutEvent(m))]
    /\ NoFault /\ ExecFrame

\* message_queue.put(("status", ...)), first statement of the loop body
ExecStatus(e) ==
    /\ alive /\ thr[e].pc = "db_begin"
    /\ LET r == thr[e]
           m == Msg("status", e, [db |-> CurDb(r), pos |-> r.db_index, of |-> Len(r.databases)])
       IN /\ Put(m)
          /\ thr' = [thr EXCEPT ![e] = Ev([r EXCEPT !.pc = "connect"], PutEvent(m))]
    /\ NoFault /\ ExecFrame

\* with self.sql_connector.get_connection(db) as conn: pyodbc.connect returns or raises
ExecConnectOk(e) ==
    /\ alive /\ thr[e].pc = "connect"
    /\ LET r == thr[e]
           c == r.nconn + 1
       IN thr' = [thr EXCEPT ![e] =
                    Ev([r EXCEPT !.conn = c, !.nconn = c, !.db_results = <<>>,
                                 !.i = 1, !.pc = "stmt"],
                       Event("open", CurDb(r), 0, c, "ok"))]
    /\ UNCHANGED message_queue /\ NoFault /\ ExecFrame

ExecConnectFail(e) ==
    /\ alive /\ thr[e].pc = "connect" /\ CanFault
    /\ \E cls \in ExcClasses :
         LET r == thr[e]
         IN thr' = [thr EXCEPT ![e] =
                      NextDb(Handler(Ev(r, Event("open_failed", CurDb(r), 0, 0, cls)), cls))]
    /\ UNCHANGED message_queue /\ Faulted /\ ExecFrame

\* cursor.execute(formatted_sql): the statement is sent
ExecSend(e) ==
    /\ alive /\ thr[e].pc = "stmt"
    /\ LET r == thr[e]
       IN thr' = [thr EXCEPT ![e] =
                    Ev([r EXCEPT !.pc = "executing"], Event("send", CurDb(r), r.i, r.conn, ""))]
    /\ UNCHANGED message_queue /\ NoFault /\ ExecFrame

\* the statement returned: rows fetched, result formatted and recorded
ExecStatementOk(e) ==
    /\ alive /\ thr[e].pc = "executing"
    /\ \E rows \in (IF ReturnsRows(CurStatement(thr[e])) THEN RowCounts ELSE AffectedRows) :
         LET r == thr[e]
             desc == ReturnsRows(CurStatement(r))
             m == Msg("row_count", e, [db |-> CurDb(r), stmt |-> r.i, rows |-> rows])
             r1 == Succeeded(Ev(r, Event("returned", CurDb(r), r.i, r.conn, "ok")), desc, rows)
         IN IF desc
            THEN /\ Put(m)
                 /\ thr' = [thr EXCEPT ![e] = NextStatement(Ev(r1, PutEvent(m)))]
            ELSE /\ UNCHANGED message_queue
                 /\ thr' = [thr EXCEPT ![e] = NextStatement(r1)]
    /\ NoFault /\ ExecFrame

\* variant: a statement's database error ends the batch (no inner handler)
ExecStatementError_Aborts(e) ==
    /\ alive /\ thr[e].pc = "executing" /\ CanFault
    /\ LET r == thr[e]
       IN thr' = [thr EXCEPT ![e] =
                    [StatementFailed(Ev(r, Event("returned", CurDb(r), r.i, r.conn, "db_error")))
                        EXCEPT !.pending = "OperationalError", !.pc = "close"]]
    /\ UNCHANGED message_queue /\ Faulted /\ ExecFrame

\* variant: a statement that failed is sent again
ExecStatementError_Retries(e) ==
    /\ alive /\ thr[e].pc = "executing" /\ CanFault
    /\ LET r == thr[e]
       IN thr' = [thr EXCEPT ![e] =
                    [StatementFailed(Ev(r, Event("returned", CurDb(r), r.i, r.conn, "db_error")))
                        EXCEPT !.pc = "stmt"]]
    /\ UNCHANGED message_queue /\ Faulted /\ ExecFrame

\* cursor.execute or fetchmany raised pyodbc.Error
ExecStatementError(e) ==
    /\ alive /\ thr[e].pc = "executing" /\ CanFault
    /\ LET r == thr[e]
       IN thr' = [thr EXCEPT ![e] =
                    NextStatement(StatementFailed(
                        Ev(r, Event("returned", CurDb(r), r.i, r.conn, "db_error"))))]
    /\ UNCHANGED message_queue /\ Faulted /\ ExecFrame

\* the statement succeeded and was recorded, then cursor.nextset() raised a
\* pyodbc.Error that is not a ProgrammingError: the inner handler runs as well
ExecNextsetError(e) ==
    /\ alive /\ thr[e].pc = "executing" /\ CanFault
    /\ \E rows \in (IF ReturnsRows(CurStatement(thr[e])) THEN RowCounts ELSE AffectedRows) :
         LET r == thr[e]
             desc == ReturnsRows(CurStatement(r))
             m == Msg("row_count", e, [db |-> CurDb(r), stmt |-> r.i, rows |-> rows])
             r1 == Succeeded(Ev(r, Event("returned", CurDb(r), r.i, r.conn, "nextset_error")),
                             desc, rows)
         IN IF desc
            THEN /\ Put(m)
                 /\ thr' = [thr EXCEPT ![e] =
                              NextStatement(StatementFailed(Ev(r1, PutEvent(m))))]
            ELSE /\ UNCHANGED message_queue
                 /\ thr' = [thr EXCEPT ![e] = NextStatement(StatementFailed(r1))]
    /\ Faulted /\ ExecFrame

\* variant: the batch is committed although an unexpected error left it
ExecStatementUnexpected_Commits(e) ==
    /\ alive /\ thr[e].pc = "executing" /\ CanFault
    /\ LET r == thr[e]
       IN thr' = [thr EXCEPT ![e] =
                    [Ev(r, Event("returned", CurDb(r), r.i, r.conn, "unexpected"))
                        EXCEPT !.pc = "commit"]]
    /\ UNCHANGED message_queue /\ Faulted /\ ExecFrame

\* an exception that is no pyodbc.Error (raised while fetching or formatting)
\* leaves the statement loop and the with block
ExecStatementUnexpected(e) ==
    /\ alive /\ thr[e].pc = "executing" /\ CanFault
    /\ LET r == thr[e]
       IN thr' = [thr EXCEPT ![e] =
                    [Ev(r, Event("returned", CurDb(r), r.i, r.conn, "unexpected"))
                        EXCEPT !.pending = "Exception", !.pc = "close"]]
    /\ UNCHANGED message_queue /\ Faulted /\ ExecFrame

\* the database summary joined with the statement results
NormalBlock(r) ==
    [ db |-> CurDb(r), idx |-> r.db_index - 1, kind |-> "normal",
      results |-> r.db_results ]

\* variant: the database's block is put on the channel as soon as it is built
ExecCommitOk_Streams(e) ==
    /\ alive /\ thr[e].pc = "commit"
    /\ LET r == thr[e]
           m == Msg("result", e, NormalBlock(r))
       IN /\ Put(m)
          /\ thr' = [thr EXCEPT ![e] =
                       [Ev(Ev(r, Event("commit", CurDb(r), 0, r.conn, "ok")), PutEvent(m))
                           EXCEPT !.all_results = Append(r.all_results, NormalBlock(r)),
                                  !.pc = "close"]]
    /\ NoFault /\ ExecFrame

\* conn.commit(), then the database summary and all_results.append
ExecCommitOk(e) ==
    /\ alive /\ thr[e].pc = "commit"
    /\ LET r == thr[e]
       IN thr' = [thr EXCEPT ![e] =
                    [Ev(r, Event("commit", CurDb(r), 0, r.conn, "ok"))
                        EXCEPT !.all_results = Append(r.all_results, NormalBlock(r)),
                               !.pc = "close"]]
    /\ UNCHANGED message_queue /\ NoFault /\ ExecFrame

\* conn.commit() raised
ExecCommitFail(e) ==
    /\ alive /\ thr[e].pc = "commit" /\ CanFault
    /\ \E cls \in ExcClasses :
         LET r == thr[e]
         IN thr' = [thr EXCEPT ![e] =
                      [Ev(r, Event("commit", CurDb(r), 0, r.conn, cls))
                          EXCEPT !.pending = cls, !.pc = "close"]]
    /\ UNCHANGED message_queue /\ Faulted /\ ExecFrame

\* variant: no finally, the connection is closed only when the block ends normally
ExecCloseOk_KeepsOpen(e) ==
    /\ alive /\ thr[e].pc = "close"
    /\ LET r == thr[e]
           r1 == [Ev(r, Event("close", CurDb(r), 0, r.conn, "ok")) EXCEPT !.conn = 0]
       IN thr' = [thr EXCEPT ![e] =
                    IF r.pending = "none" THEN NextDb(r1)
                    ELSE NextDb(Handler(r, r.pending))]
    /\ UNCHANGED message_queue /\ NoFault /\ ExecFrame

\* SQLConnector.get_connection, finally: conn.close(); then the handler of the
\* exception that left the with block, if any
ExecCloseOk(e) ==
    /\ alive /\ thr[e].pc = "close"
    /\ LET r == thr[e]
           r1 == [Ev(r, Event("close", CurDb(r), 0, r.conn, "ok")) EXCEPT !.conn = 0]
       IN thr' = [thr EXCEPT ![e] =
                    IF r.pending = "none" THEN NextDb(r1)
                    ELSE NextDb(Handler(r1, r.pending))]
    /\ UNCHANGED message_queue /\ NoFault /\ ExecFrame

\* conn.close() raised: its exception replaces the pending one
ExecCloseFail(e) ==
    /\ alive /\ thr[e].pc = "close" /\ CanFault
    /\ \E cls \in ExcClasses :
         LET r == thr[e]
             r1 == [Ev(r, Event("close", CurDb(r), 0, r.conn, cls)) EXCEPT !.conn = 0]
         IN thr' = [thr EXCEPT ![e] = NextDb(Handler(r1, cls))]
    /\ UNCHANGED message_queue /\ Faulted /\ ExecFrame

\* all_results.sort(key=lambda x: x[2], reverse=True): a stable sort, descending
RECURSIVE InsertDesc(_, _)
InsertDesc(sorted, x) ==
    IF sorted = <<>> THEN <<x>>
    ELSE IF Head(sorted).idx >= x.idx
         THEN <<Head(sorted)>> \o InsertDesc(Tail(sorted), x)
         ELSE <<x>> \o sorted

\* variant: all_results is left in the order of execution
SortDesc_Unsorted(s) == s

RECURSIVE SortDesc(_)
SortDesc(s) ==
    IF s = <<>> THEN <<>>
    ELSE InsertDesc(SortDesc(SubSeq(s, 1, Len(s) - 1)), s[Len(s)])

\* _format_overall_summary and message_queue.put(("result", overall_summary)),
\* then the sort of all_results
ExecPutSummary(e) ==
    /\ alive /\ thr[e].pc = "summary"
    /\ LET r == thr[e]
           m == Msg("result", e,
                    [ kind |-> "summary", databases |-> r.databases,
                      total_statements |-> NumStatements(r),
                      successful_executions |-> r.successful_executions,
                      failed_executions |-> r.failed_executions,
                      total_rows |-> r.total_rows ])
       IN /\ Put(m)
          /\ thr' = [thr EXCEPT ![e] =
                       Ev([r EXCEPT !.all_results = SortDesc(r.all_results),
                                    !.k = 1, !.pc = "blocks"], PutEvent(m))]
    /\ NoFault /\ ExecFrame

\* for db_name, db_result, _ in all_results: message_queue.put(("result", db_result))
ExecPutBlock(e) ==
    /\ alive /\ thr[e].pc = "blocks"
    /\ LET r == thr[e]
           m == Msg("result", e, r.all_results[r.k])
       IN /\ Put(m)
          /\ thr' = [thr EXCEPT ![e] =
                       Ev([r EXCEPT !.k = r.k + 1,
                                    !.pc = IF r.k < Len(r.all_results)
                                           THEN "blocks" ELSE "exec_time"],
                          PutEvent(m))]
    /\ NoFault /\ ExecFrame

\* one of the five final puts
FinalPut(e, pc, type, data, next) ==
    /\ alive /\ thr[e].pc = pc
    /\ LET m == Msg(type, e, data)
       IN /\ Put(m)
          /\ thr' = [thr EXCEPT ![e] = Ev([thr[e] EXCEPT !.pc = next], PutEvent(m))]
    /\ NoFault /\ ExecFrame

ExecPutExecTime(e) == FinalPut(e, "exec_time", "exec_time", 0, "total_rows")
\* variant: no put of "done"
ExecPutTotalRows_SkipsDone(e) ==
    FinalPut(e, "total_rows", "total_rows", thr[e].total_rows, "current_query_log")

ExecPutTotalRows(e) == FinalPut(e, "total_rows", "total_rows", thr[e].total_rows, "done")

\* message_queue.put(("done", ...)); of the locals only current_query_log is
\* read after it, and the channel carries it by reference
ExecPutDone(e) ==
    /\ alive /\ thr[e].pc = "done"
    /\ Put(Msg("done", e, 0))
    /\ thr' = [thr EXCEPT ![e] =
                 [IdleThread("current_query_log") EXCEPT
                     !.done_puts = thr[e].done_puts + 1]]
    /\ NoFault /\ ExecFrame

ExecPutLog(e) == FinalPut(e, "current_query_log", "current_query_log", e, "enable_log_button")

\* the last put; execute_query returns and the thread ends
ExecPutEnable(e) ==
    /\ alive /\ thr[e].pc = "enable_log_button"
    /\ Put(Msg("enable_log_button", e, TRUE))
    /\ thr' = [thr EXCEPT ![e] =
                 [IdleThread("finished") EXCEPT !.done_puts = thr[e].done_puts]]
    /\ NoFault /\ ExecFrame

\* the steps in which a driver call raises
ExecFault(e) ==
    \/ ExecConnectFail(e)
    \/ ExecStatementError(e)
    \/ ExecNextsetError(e)
    \/ ExecStatementUnexpected(e)
    \/ ExecCommitFail(e)
    \/ ExecCloseFail(e)

\* the steps of the thread when every driver call succeeds
ExecStep(e) ==
    \/ ExecStatus(e)
    \/ ExecConnectOk(e)
    \/ ExecSend(e)
    \/ ExecStatementOk(e)
    \/ ExecCommitOk(e)
    \/ ExecCloseOk(e)
    \/ ExecPutSummary(e)
    \/ ExecPutBlock(e)
    \/ ExecPutExecTime(e)
    \/ ExecPutTotalRows(e)
    \/ ExecPutDone(e)
    \/ ExecPutLog(e)
    \/ ExecPutEnable(e)


(***************************************************************************)
(* SQLToolApp: the handlers that run on the UI thread.  Each is one action:*)
(* the UI thread runs one callback at a time.                              *)
(***************************************************************************)
\* get_connection_inputs: per field, whether it holds a non-empty string
ConnectInputs == [server : BOOLEAN, username : BOOLEAN]

\* the checks of connect_to_server that end it early
ConnectRejectedBy(c) == ~c.server \/ ~c.username

\* connect_to_server returns after show_input_error: server or username is empty
ConnectRejected ==
    /\ alive /\ screen = "connection" /\ connect_button = "normal"
    /\ \E c \in ConnectInputs : ConnectRejectedBy(c)
    /\ UNCHANGED vars

\* connect_to_server with a server and a username: the attempt thread is started
ConnectToServer ==
    /\ alive /\ screen = "connection" /\ connect_button = "normal"
    /\ nconnect < MaxConnects /\ nconnect + nexec < MaxStarts
    /\ \E c \in ConnectInputs : ~ConnectRejectedBy(c)
    /\ current_server_config' = nconnect + 1
    /\ sql_connector' = TRUE
    /\ connect_button' = "disabled"
    /\ conn_thread' = [conn_thread EXCEPT ![nconnect + 1] = "test"]
    /\ nconnect' = nconnect + 1
    /\ UNCHANGED << alive, screen, query_executor, current_query_log, query_running,
                    run_query_btn, save_log_btn, db_vars, db_checkbuttons, select_all_var, db_listed,
                    query_history, history_file, result_text, message_queue, thr,
                    confirmed, nexec, faults, last_login, envVars >>

\* save_last_login(server, username): the file holds them afterwards, unless
\* the write raised IOError, which is swallowed
save_last_login(file, login, written) == IF written THEN login ELSE file

\* _attempt_connection_thread up to its put: test_connection returned
\* (success, message)
AttemptConnectionPut(a) ==
    /\ alive /\ conn_thread[a] = "test"
    /\ \E success \in BOOLEAN :
         /\ Put(Msg(IF success THEN "connection_success" ELSE "connection_error", 0, 0))
         /\ conn_thread' = [conn_thread EXCEPT
                              ![a] = IF success THEN "save_last_login" ELSE "idle"]
    /\ UNCHANGED << alive, appVars, history_file, thr, confirmed, nexec, nconnect,
                    faults, last_login, envVars >>

\* what save_last_login(self.current_server_config['server'], ...) leaves in
\* the file: subscripting None raises TypeError before the call
SavedLogins ==
    IF current_server_config = 0
    THEN {last_login}
    ELSE {save_last_login(last_login, current_server_config, written) :
             written \in BOOLEAN}

\* _attempt_connection_thread after the put of "connection_success"
AttemptConnectionSave(a) ==
    /\ alive /\ conn_thread[a] = "save_last_login"
    /\ conn_thread' = [conn_thread EXCEPT ![a] = "idle"]
    /\ last_login' \in SavedLogins
    /\ UNCHANGED << alive, appVars, history_file, message_queue, thr, confirmed, nexec,
                    nconnect, faults, envVars >>

\* _attempt_connection_thread, run without a step of the UI thread in between
AttemptConnection(a) ==
    /\ alive /\ conn_thread[a] = "test"
    /\ conn_thread' = [conn_thread EXCEPT ![a] = "idle"]
    /\ \E success \in BOOLEAN :
         /\ Put(Msg(IF success THEN "connection_success" ELSE "connection_error", 0, 0))
         /\ last_login' \in (IF success THEN SavedLogins ELSE {last_login})
    /\ UNCHANGED << alive, appVars, history_file, thr, confirmed, nexec, nconnect,
                    faults, envVars >>

\* the part of the application the branches of check_queue read and write
UiState ==
    [ screen |-> screen, current_server_config |-> current_server_config,
      current_query_log |-> current_query_log, query_running |-> query_running,
      connect_button |-> connect_button, run_query_btn |-> run_query_btn,
      save_log_btn |-> save_log_btn, db_vars |-> db_vars,
      db_checkbuttons |-> db_checkbuttons,
      select_all_var |-> select_all_var, db_listed |-> db_listed,
      result_text |-> result_text ]

\* handle_connection_success: build_main_ui, populate_databases (get_databases
\* returned the list, or raised), connect button
handle_connection_success(st, dbs_ok) ==
    [st EXCEPT !.screen = "main",
               !.run_query_btn = "normal",
               !.save_log_btn = "disabled",
               !.result_text = <<>>,
               !.select_all_var = FALSE,
               !.db_vars = IF dbs_ok THEN [d \in 1..server_dbs |-> FALSE] ELSE st.db_vars,
               !.db_checkbuttons = IF dbs_ok THEN [d \in 1..server_dbs |-> FALSE]
                                   ELSE st.db_checkbuttons,
               !.db_listed = dbs_ok,
               !.connect_button = "normal"]

\* handle_connection_error
handle_connection_error(st) ==
    [st EXCEPT !.connect_button = "normal", !.current_server_config = 0]

\* variant: check_queue has no branch for "done"
HandleMessage_IgnoresDone(st, m, dbs_ok) ==
    CASE m.type = "connection_success" -> handle_connection_success(st, dbs_ok)
      [] m.type = "connection_error" -> handle_connection_error(st)
      [] m.type = "result" -> [st EXCEPT !.result_text = Append(st.result_text, m)]
      [] m.type = "current_query_log" -> [st EXCEPT !.current_query_log = m.data]
      [] m.type = "enable_log_button" -> [st EXCEPT !.save_log_btn = "normal"]
      [] OTHER -> st

\* the branch of check_queue for one message
HandleMessage(st, m, dbs_ok) ==
    CASE m.type = "connection_success" -> handle_connection_success(st, dbs_ok)
      [] m.type = "connection_error" -> handle_connection_error(st)
      [] m.type = "result" -> [st EXCEPT !.result_text = Append(st.result_text, m)]
      [] m.type = "current_query_log" -> [st EXCEPT !.current_query_log = m.data]
      [] m.type = "enable_log_button" -> [st EXCEPT !.save_log_btn = "normal"]
      [] m.type = "done" -> [st EXCEPT !.query_running = FALSE, !.run_query_btn = "normal"]
      [] OTHER -> st    \* status, row_count, exec_time, total_rows: labels only

\* while True: message_queue.get_nowait() ... until Empty
RECURSIVE Drain(_, _, _)
Drain(st, q, dbs_ok) ==
    IF q = <<>> THEN st ELSE Drain(HandleMessage(st, Head(q), dbs_ok), Tail(q), dbs_ok)

\* check_queue, one timer tick that finds messages
CheckQueue ==
    /\ alive /\ message_queue # <<>>
    /\ \E dbs_ok \in BOOLEAN :
         LET st == Drain(UiState, message_queue, dbs_ok)
         IN /\ screen' = st.screen
            /\ current_server_config' = st.current_server_config
            /\ current_query_log' = st.current_query_log
            /\ query_running' = st.query_running
            /\ connect_button' = st.connect_button
            /\ run_query_btn' = st.run_query_btn
            /\ save_log_btn' = st.save_log_btn
            /\ db_vars' = st.db_vars
            /\ db_checkbuttons' = st.db_checkbuttons
            /\ select_all_var' = st.select_all_var
            /\ db_listed' = st.db_listed
            /\ result_text' = st.result_text
    /\ message_queue' = <<>>
    /\ UNCHANGED << alive, sql_connector, query_executor, query_history, history_file,
                    conn_thread, thr, confirmed, nexec, nconnect, faults, last_login, envVars >>

\* UIBuilder.get_selected_databases, in the order of db_vars
RECURSIVE SelectedFrom(_, _)
SelectedFrom(dv, d) ==
    IF d > Len(dv) THEN <<>>
    ELSE (IF dv[d] THEN <<d>> ELSE <<>>) \o SelectedFrom(dv, d + 1)

get_selected_databases == SelectedFrom(db_vars, 1)

\* the BooleanVar the <Button-1> binding of a database label toggles: the lambda
\* of populate_db_checkboxes binds d=db but reads var when it runs, after the loop
ToggledVar(d) == Len(db_vars)

\* what a click on the main screen leaves alone, db_vars and select_all_var apart
ClickFrame ==
    UNCHANGED << alive, screen, sql_connector, query_executor, current_server_config,
                 current_query_log, query_running, connect_button, run_query_btn,
                 db_listed, query_history, history_file, message_queue, conn_thread,
                 thr, confirmed, nexec, nconnect, faults, last_login, envVars >>

\* click on the label of database d: var.set(not var.get()), then
\* update_select_all_state, then update_checkbox_symbol(var, d)
ClickDbCheckbox(d) ==
    /\ alive /\ screen = "main" /\ db_listed /\ d \in 1..Len(db_vars)
    /\ db_vars' = [db_vars EXCEPT ![ToggledVar(d)] = ~db_vars[ToggledVar(d)]]
    /\ select_all_var' = (\A x \in 1..Len(db_vars) : db_vars'[x])
    /\ db_checkbuttons' = [db_checkbuttons EXCEPT ![d] = db_vars'[ToggledVar(d)]]
    /\ UNCHANGED << save_log_btn, result_text >>
    /\ ClickFrame

\* click on "Select All Databases": toggle_select_all_dbs
ClickSelectAll ==
    /\ alive /\ screen = "main"
    /\ select_all_var' = ~select_all_var
    /\ db_vars' = [d \in 1..Len(db_vars) |-> ~select_all_var]
    /\ db_checkbuttons' = db_vars'
    /\ UNCHANGED << save_log_btn, result_text >>
    /\ ClickFrame

\* clear_results
ClearResults ==
    /\ alive /\ screen = "main"
    /\ result_text' = <<>>
    /\ save_log_btn' = "disabled"
    /\ UNCHANGED << db_vars, db_checkbuttons, select_all_var >>
    /\ ClickFrame

\* disconnect_server, the dialog answered yes
DisconnectServer ==
    /\ alive /\ screen = "main"
    /\ sql_connector' = FALSE
    /\ query_executor' = 0
    /\ current_server_config' = 0
    /\ current_query_log' = 0
    /\ screen' = "connection"
    /\ connect_button' = "normal"
    /\ UNCHANGED << alive, query_running, run_query_btn, save_log_btn, db_vars, db_checkbuttons,
                    select_all_var, db_listed, query_history, history_file, result_text,
                    message_queue, conn_thread, thr, confirmed, nexec, nconnect,
                    faults, last_login, envVars >>

\* variant: pop() instead of pop(0), the entry just added is dropped
add_to_history_PopsNewest(h, q) ==
    IF Len(h) + 1 > MAX_HISTORY_ENTRIES THEN h ELSE Append(h, q)

\* ConfigManager.add_to_history
add_to_history(h, q) ==
    IF Len(h) + 1 > MAX_HISTORY_ENTRIES THEN Tail(Append(h, q)) ELSE Append(h, q)

\* variant: start_query_thread without the validator's check
StartRejectedBy_NoValidator(q, answer) ==
    \/ ~sql_connector
    \/ query_running
    \/ get_selected_databases = <<>>
    \/ get_query_text(q) = <<>>

\* the checks of start_query_thread that end it early: not connected, a query
\* running, nothing selected, empty text, destructive text not confirmed
StartRejectedBy(q, answer) ==
    \/ ~sql_connector
    \/ query_running
    \/ get_selected_databases = <<>>
    \/ get_query_text(q) = <<>>
    \/ (contains_dangerous_sql(get_query_text(q)) /\ ~answer)

\* variant: add_to_history is called before the checks
StartQueryRejected_AddsFirst ==
    /\ alive /\ screen = "main"
    /\ \E q \in QueryIds, answer \in BOOLEAN :
         /\ StartRejectedBy(q, answer)
         /\ query_history' = add_to_history(query_history, q)
    /\ UNCHANGED << alive, screen, sql_connector, query_executor, current_server_config,
                    current_query_log, query_running, connect_button, run_query_btn,
                    save_log_btn, db_vars, db_checkbuttons, select_all_var, db_listed, history_file,
                    result_text, message_queue, conn_thread, thr, confirmed, nexec,
                    nconnect, faults, last_login, envVars >>

\* start_query_thread returns early (Execute button or Ctrl+Enter)
StartQueryRejected ==
    /\ alive /\ screen = "main"
    /\ \E q \in QueryIds, answer \in BOOLEAN : StartRejectedBy(q, answer)
    /\ UNCHANGED vars

\* start_query_thread passes its checks: history, flags, console, executor, thread
StartQueryThread ==
    /\ alive /\ screen = "main"
    /\ nexec < MaxExecs /\ nconnect + nexec < MaxStarts
    /\ \E q \in QueryIds, answer \in BOOLEAN :
         /\ ~StartRejectedBy(q, answer)
         /\ LET e == nexec + 1
            IN /\ query_history' = add_to_history(query_history, q)
               /\ query_running' = TRUE
               /\ run_query_btn' = "disabled"
               /\ save_log_btn' = "disabled"
               /\ result_text' = <<"Executing query...">>
               /\ query_executor' = e
               /\ thr' = [thr EXCEPT ![e] =
                            [IdleThread("db_begin") EXCEPT
                                !.query = q,
                                !.databases = get_selected_databases,
                                !.db_index = 1]]
               /\ confirmed' = [confirmed EXCEPT ![e] =
                                  contains_dangerous_sql(get_query_text(q)) /\ answer]
               /\ nexec' = e
    /\ UNCHANGED << alive, screen, sql_connector, current_server_config,
                    current_query_log, connect_button, db_vars, db_checkbuttons, select_all_var,
                    db_listed, history_file, message_queue, conn_thread, nconnect,
                    faults, last_login, envVars >>

\* the process ends: daemon threads and the channel go with it
ProcessEnds ==
    /\ alive' = FALSE
    /\ message_queue' = <<>>
    /\ conn_thread' = [a \in ConnIds |-> "idle"]
    /\ thr' = [e \in ExecIds |->
                 IdleThread(IF thr[e].pc = "idle" THEN "idle" ELSE "killed")]
    /\ UNCHANGED << appVars, confirmed, nexec, nconnect, faults, last_login, envVars >>

\* on_close, the dialog answered yes: save_history (an IOError is swallowed), destroy
OnClose ==
    /\ alive
    /\ \E written \in BOOLEAN :
         history_file' = IF written
                         THEN [content |-> query_history, save |-> "written"]
                         ELSE [history_file EXCEPT !.save = "failed"]
    /\ ProcessEnds

\* the Exit button of the connection screen: root.quit
ExitButton ==
    /\ alive /\ screen = "connection"
    /\ UNCHANGED history_file
    /\ ProcessEnds

\* The application with its threads.  The driver calls of a query succeed
\* here; what a failing call does to an execution is explored in ExecSpec.
\* A connection attempt runs as one step here; how its thread interleaves with
\* the UI thread is explored in ConnSpec.
Next ==
    \/ ConnectRejected
    \/ ConnectToServer
    \/ \E a \in ConnIds : AttemptConnection(a)
    \/ CheckQueue
    \/ \E d \in 1..AppDbs : ClickDbCheckbox(d)
    \/ ClickSelectAll
    \/ ClearResults
    \/ DisconnectServer
    \/ StartQueryRejected
    \/ StartQueryThread
    \/ OnClose
    \/ ExitButton
    \/ \E e \in ExecIds : ExecStep(e)

Spec == Init /\ [][Next]_vars

\* Connecting and disconnecting, the attempt threads taking their steps one by
\* one among the callbacks of the UI thread.
ConnNext ==
    \/ ConnectRejected
    \/ ConnectToServer
    \/ \E a \in ConnIds : AttemptConnectionPut(a)
    \/ \E a \in ConnIds : AttemptConnectionSave(a)
    \/ CheckQueue
    \/ \E d \in 1..AppDbs : ClickDbCheckbox(d)
    \/ ClickSelectAll
    \/ DisconnectServer
    \/ OnClose
    \/ ExitButton

ConnSpec == Init /\ [][ConnNext]_vars

(***************************************************************************)
(* One execute_query call explored alone, with every way the driver can    *)
(* fail: the application is as start_query_thread leaves it, for every     *)
(* query text it lets through and every selection the checkboxes produce.  *)
(***************************************************************************)
\* the selections the bindings of populate_db_checkboxes and Select All can produce
Selections(n) ==
    { dv \in [1..n -> BOOLEAN] :
        /\ \A x, y \in 1..(n - 1) : dv[x] = dv[y]
        /\ \E x \in 1..n : dv[x] }

Started(budget, n, c) ==
    /\ alive = TRUE
    /\ screen = "main"
    /\ sql_connector = TRUE
    /\ query_executor = 1
    /\ current_server_config = 1
    /\ current_query_log = 0
    /\ query_running = TRUE
    /\ connect_button = "normal"
    /\ run_query_btn = "disabled"
    /\ save_log_btn = "disabled"
    /\ db_vars \in Selections(n)
    /\ db_checkbuttons = db_vars
    /\ select_all_var = (\A x \in 1..n : db_vars[x])
    /\ db_listed = TRUE
    /\ \E q \in QueryIds :
         /\ get_query_text(q) # <<>>
         /\ query_history = <<q>>
         /\ thr = [e \in ExecIds |->
                     IF e = 1
                     THEN [IdleThread("db_begin") EXCEPT
                              !.query = q,
                              !.databases = SelectedFrom(db_vars, 1),
                              !.db_index = 1]
                     ELSE IdleThread("idle")]
         /\ confirmed = [e \in ExecIds |->
                           e = 1 /\ contains_dangerous_sql(get_query_text(q))]
    /\ history_file = [content |-> <<>>, save |-> "none"]
    /\ result_text = <<"Executing query...">>
    /\ message_queue = <<>>
    /\ conn_thread = [a \in ConnIds |-> "idle"]
    /\ last_login = 1
    /\ nexec = 1
    /\ nconnect = 1
    /\ server_dbs = n
    /\ faults = 0
    /\ fault_budget = budget
    /\ call = c

ExecInit == Started(MaxFaults, NumDbs, NoCall)

ExecNext == \E e \in ExecIds : ExecStep(e) \/ ExecFault(e)

ExecSpec == ExecInit /\ [][ExecNext]_vars

(***************************************************************************)
(* The same execution together with the UI thread: the poll of the channel *)
(* and what the operator can do on the main screen while the query runs.   *)
(***************************************************************************)
PollInit == Started(PollFaults, AppDbs, NoCall)

PollNext ==
    \/ \E e \in ExecIds : ExecStep(e) \/ ExecFault(e)
    \/ CheckQueue
    \/ ClearResults
    \/ DisconnectServer
    \/ StartQueryRejected

PollSpec == PollInit /\ [][PollNext]_vars

\* the timer re-arms check_queue every 100 ms; the thread is scheduled and
\* every driver call returns
FairPollSpec ==
    /\ PollSpec
    /\ WF_vars(CheckQueue)
    /\ \A e \in ExecIds : WF_vars(ExecStep(e))

(***************************************************************************)
(* The database list of the main screen with NumDbs databases: the state   *)
(* handle_connection_success leaves, then the operator's clicks on the     *)
(* labels and on Select All, Clear, and the Execute button.                *)
(***************************************************************************)
SelectInit ==
    /\ alive = TRUE
    /\ screen = "main"
    /\ sql_connector = TRUE
    /\ query_executor = 0
    /\ current_server_config = 1
    /\ current_query_log = 0
    /\ query_running = FALSE
    /\ connect_button = "normal"
    /\ run_query_btn = "normal"
    /\ save_log_btn = "disabled"
    /\ db_vars = [d \in 1..NumDbs |-> FALSE]
    /\ db_checkbuttons = [d \in 1..NumDbs |-> FALSE]
    /\ select_all_var = FALSE
    /\ db_listed = TRUE
    /\ query_history = <<>>
    /\ history_file = [content |-> <<>>, save |-> "none"]
    /\ result_text = <<>>
    /\ message_queue = <<>>
    /\ conn_thread = [a \in ConnIds |-> "idle"]
    /\ last_login = 1
    /\ thr = [e \in ExecIds |-> IdleThread("idle")]
    /\ confirmed = [e \in ExecIds |-> FALSE]
    /\ nexec = 0
    /\ nconnect = 1
    /\ server_dbs = NumDbs
    /\ faults = 0
    /\ fault_budget = 0
    /\ call = NoCall

SelectNext ==
    \/ \E d \in 1..NumDbs : ClickDbCheckbox(d)
    \/ ClickSelectAll
    \/ ClearResults
    \/ StartQueryRejected
    \/ StartQueryThread

SelectSpec == SelectInit /\ [][SelectNext]_vars


(***************************************************************************)
(* SQLValidator.contains_dangerous_sql called on texts typed fragment by   *)
(* fragment.                                                               *)
(***************************************************************************)
\* what the operator types: pieces of keywords in several casings, separators
Fragments ==
    << <<"d","r","o","p">>,
       <<"D","R","O","P">>,
       <<" ">>,
       <<"t","a","b","l","e">>,
       <<"T","a","b","l","e">>,
       <<"d","a","t","a","b","a","s","e">>,
       <<"T","R","U","N","C","A","T","E">>,
       <<"D","e","l","e","t","e"," ","F","r","o","m">>,
       <<"a","l","t","e","r">>,
       <<"u","p","d","a","t","e">>,
       <<"\t">>,
       <<"x">> >>

ValidatorInit ==
    /\ Constructed
    /\ call = [op |-> "contains_dangerous_sql", text |-> <<>>, typed |-> 0,
              returned |-> FALSE, result |-> FALSE]

TypeFragment ==
    /\ call.op = "contains_dangerous_sql" /\ ~call.returned
    /\ call.typed < MaxFragments
    /\ \E f \in 1..Len(Fragments) :
         call' = [call EXCEPT !.text = call.text \o Fragments[f], !.typed = call.typed + 1]
    /\ UNCHANGED progVars

Validate ==
    /\ call.op = "contains_dangerous_sql" /\ ~call.returned
    /\ call' = [call EXCEPT !.returned = TRUE,
                           !.result = contains_dangerous_sql(call.text)]
    /\ UNCHANGED progVars

ValidatorNext == TypeFragment \/ Validate

ValidatorSpec == ValidatorInit /\ [][ValidatorNext]_vars

(***************************************************************************)
(* One successful statement of execute_query on its own: the fetch loop,   *)
(* _format_query_results and the row counters.  The server's rows are      *)
(* numbered 1..n in the order it returns them.                             *)
(***************************************************************************)
Min(a, b) == IF a <= b THEN a ELSE b

\* variant: the note is written from 100 rows on
format_query_results_NoteAtCap(description, rows, row_count) ==
    IF ~description
    THEN [kind |-> "non_query", status_rows |-> row_count, data_rows |-> <<>>,
          truncation_note |-> FALSE, note_total |-> 0]
    ELSE IF rows = <<>>
    THEN [kind |-> "no_rows", status_rows |-> 0, data_rows |-> <<>>,
          truncation_note |-> FALSE, note_total |-> 0]
    ELSE [kind |-> "table", status_rows |-> row_count,
          data_rows |-> SubSeq(rows, 1, Min(Len(rows), DISPLAY_ROWS)),
          truncation_note |-> Len(rows) >= DISPLAY_ROWS,
          note_total |-> IF Len(rows) >= DISPLAY_ROWS THEN Len(rows) ELSE 0]

\* QueryExecutor._format_query_results: what the text shows of the rows
format_query_results(description, rows, row_count) ==
    IF ~description
    THEN [kind |-> "non_query", status_rows |-> row_count, data_rows |-> <<>>,
          truncation_note |-> FALSE, note_total |-> 0]
    ELSE IF rows = <<>>
    THEN [kind |-> "no_rows", status_rows |-> 0, data_rows |-> <<>>,
          truncation_note |-> FALSE, note_total |-> 0]
    ELSE [kind |-> "table", status_rows |-> row_count,
          data_rows |-> SubSeq(rows, 1, Min(Len(rows), DISPLAY_ROWS)),
          truncation_note |-> Len(rows) > DISPLAY_ROWS,
          note_total |-> IF Len(rows) > DISPLAY_ROWS THEN Len(rows) ELSE 0]

NoResult ==
    [kind |-> "none", status_rows |-> 0, data_rows |-> <<>>,
     truncation_note |-> FALSE, note_total |-> 0]

\* cursor.execute returned: a result set of n rows, or n rows affected
FormatInit ==
    /\ Constructed
    /\ \E n \in 0..MaxRows, description \in BOOLEAN, before \in {0, 7} :
         call = [op |-> "format_query_results", pc |-> "fetch", n |-> n,
                 description |-> description, rows |-> <<>>, row_count |-> 0,
                 formatted_result |-> NoResult, total_rows |-> before,
                 total_before |-> before, row_count_msg |-> -1]

\* batch = cursor.fetchmany(1000); rows.extend(batch), until the batch is empty
FetchBatch ==
    /\ call.op = "format_query_results" /\ call.pc = "fetch"
    /\ LET have == Len(call.rows)
           batch == IF call.description
                    THEN [k \in 1..Min(FETCH_BATCH, call.n - have) |-> have + k]
                    ELSE <<>>
       IN call' = IF batch = <<>>
                  THEN [call EXCEPT !.pc = "format"]
                  ELSE [call EXCEPT !.rows = call.rows \o batch]
    /\ UNCHANGED progVars

\* row_count, _format_query_results, total_rows and the "row_count" message
FormatResult ==
    /\ call.op = "format_query_results" /\ call.pc = "format"
    /\ LET row_count == IF call.description THEN Len(call.rows) ELSE call.n
       IN call' = [call EXCEPT
                     !.pc = "returned",
                     !.row_count = row_count,
                     !.formatted_result =
                         format_query_results(call.description, call.rows, row_count),
                     !.total_rows = IF call.description
                                    THEN call.total_rows + row_count
                                    ELSE call.total_rows,
                     !.row_count_msg = IF call.description THEN row_count ELSE -1]
    /\ UNCHANGED progVars

FormatNext == FetchBatch \/ FormatResult

FormatSpec == FormatInit /\ [][FormatNext]_vars

(***************************************************************************)
(* ConfigManager.add_to_history called on its own, from every history      *)
(* length load_history can have left.  An entry is (timestamp, query).     *)
(***************************************************************************)
HistoryInit ==
    /\ Constructed
    /\ \E n \in 0..MAX_HISTORY_ENTRIES :
         LET loaded == [k \in 1..n |-> [at |-> k, query |-> 2]]
         IN call = [op |-> "add_to_history", query_history |-> loaded,
                    loaded |-> loaded, added |-> <<>>]

AddToHistory ==
    /\ call.op = "add_to_history" /\ Len(call.added) < MaxAdds
    /\ \E q \in QueryIds :
         /\ get_query_text(q) # <<>>
         /\ LET entry == [at |-> Len(call.loaded) + Len(call.added) + 1, query |-> q]
            IN call' = [call EXCEPT
                          !.query_history = add_to_history(call.query_history, entry),
                          !.added = Append(call.added, entry)]
    /\ UNCHANGED progVars

HistoryNext == AddToHistory

HistorySpec == HistoryInit /\ [][HistoryNext]_vars

(***************************************************************************)
(* The Export Results button: SQLToolApp.save_query_log on the log of an   *)
(* execution that runs to its end with the UI thread polling.              *)
(***************************************************************************)
\* the value check_queue stores in current_query_log: the dict built by execute_query
QueryLogValue(e) == [type |-> "dict", exec |-> e]

\* f.write(x) of a text file accepts a str only
WriteAccepts(x) == x.type = "str"

\* ConfigManager.save_query_log: the dialog gives a path or is cancelled,
\* open and the write of the header succeed or raise IOError
config_save_query_log(log_content, path, io_ok) ==
    IF ~path THEN [outcome |-> "cancelled", success |-> FALSE, file |-> <<>>]
    ELSE IF ~io_ok THEN [outcome |-> "write_failed", success |-> FALSE, file |-> <<>>]
    ELSE IF ~WriteAccepts(log_content)
         THEN [outcome |-> "raised TypeError", success |-> FALSE, file |-> <<"header">>]
    ELSE [outcome |-> "saved", success |-> TRUE, file |-> <<"header", log_content>>]

\* SQLToolApp.save_query_log, the command of the enabled Export Results button
SaveQueryLog ==
    /\ alive /\ screen = "main" /\ save_log_btn = "normal"
    /\ call.op = "save_query_log"
    /\ \E path \in BOOLEAN, io_ok \in BOOLEAN :
         call' = IF current_query_log # 0 /\ current_server_config # 0
                 THEN [op |-> "save_query_log", calls |-> Min(call.calls + 1, MaxExports)]
                      @@ config_save_query_log(QueryLogValue(current_query_log), path, io_ok)
                 ELSE [op |-> "save_query_log", calls |-> Min(call.calls + 1, MaxExports),
                       outcome |-> "no_results", success |-> FALSE, file |-> <<>>]
    /\ UNCHANGED progVars

LogInit ==
    /\ Started(0, AppDbs, [op |-> "save_query_log", calls |-> 0, outcome |-> "none",
                           success |-> FALSE, file |-> <<>>])

LogNext ==
    \/ \E e \in ExecIds : ExecStep(e)
    \/ CheckQueue
    \/ ClearResults
    \/ SaveQueryLog

LogSpec == LogInit /\ [][LogNext]_vars

(***************************************************************************)
(* SQLConnector.test_connection, called on its own: get_connection         *)
(* ("master") entered, the probe statement, the finally block of           *)
(* get_connection, the except clauses.  Any driver call may raise.         *)
(***************************************************************************)
\* what a driver call raises, told apart by the except clause it lands in:
\* pyodbc.InterfaceError, pyodbc.OperationalError, any other pyodbc.Error
DriverErrors == {"InterfaceError", "OperationalError", "Error"}

\* a driver call returns or raises
DriverOutcomes == {"ok"} \cup DriverErrors

\* the except clauses of test_connection catch the exception
Catches(exc) == exc \in DriverErrors \cup {"ValueError"}

\* the value the except clause for the exception returns
TestConnectionFailure(exc) ==
    [success |-> FALSE,
     message |-> CASE exc = "InterfaceError" ->
                        "Connection failed: Invalid connection parameters."
                   [] exc = "OperationalError" -> "Connection failed."
                   [] OTHER -> "Unexpected error during connection test."]

\* the body of the with statement, in order, and what follows each call
ProbeCalls == <<"cursor", "execute", "fetchone">>

AfterProbeCall(pc) ==
    CASE pc = "cursor" -> "execute"
      [] pc = "execute" -> "fetchone"
      [] pc = "fetchone" -> "exit"

TestInit ==
    /\ Constructed
    /\ \E server_config \in BOOLEAN :
         call = [op |-> "test_connection", pc |-> "enter",
                 server_config |-> server_config, conn |-> "none", exc |-> "none",
                 calls |-> <<>>, outcome |-> "none",
                 result |-> [success |-> FALSE, message |-> ""]]

\* get_connection: "if not self.server_config: raise ValueError"
TestEnter ==
    /\ call.op = "test_connection" /\ call.pc = "enter"
    /\ call' = IF call.server_config
               THEN [call EXCEPT !.pc = "connect"]
               ELSE [call EXCEPT !.pc = "except", !.exc = "ValueError"]
    /\ UNCHANGED progVars

\* conn = pyodbc.connect(...): when it raises, conn is None in the finally block
TestConnect ==
    /\ call.op = "test_connection" /\ call.pc = "connect"
    /\ \E r \in DriverOutcomes :
         call' = [call EXCEPT
                    !.calls = Append(@, [call |-> "connect", r |-> r]),
                    !.conn = IF r = "ok" THEN "open" ELSE @,
                    !.exc = IF r = "ok" THEN @ ELSE r,
                    !.pc = IF r = "ok" THEN "cursor" ELSE "except"]
    /\ UNCHANGED progVars

\* conn.cursor(), cursor.execute("SELECT 1"), cursor.fetchone()
TestProbe ==
    /\ call.op = "test_connection"
    /\ \E k \in 1..Len(ProbeCalls) : call.pc = ProbeCalls[k]
    /\ \E r \in DriverOutcomes :
         call' = [call EXCEPT
                    !.calls = Append(@, [call |-> call.pc, r |-> r]),
                    !.exc = IF r = "ok" THEN @ ELSE r,
                    !.pc = IF r = "ok" THEN AfterProbeCall(call.pc) ELSE "finally"]
    /\ UNCHANGED progVars

\* variant: no finally block, the connection is closed after the body only
TestClose_NoFinally ==
    /\ call.op = "test_connection" /\ call.pc \in {"exit", "finally"}
    /\ IF call.pc = "finally"
       THEN call' = [call EXCEPT !.pc = "except"]
       ELSE \E r \in DriverOutcomes, left \in {"open", "closed"} :
              call' = [call EXCEPT
                         !.calls = Append(@, [call |-> "close", r |-> r]),
                         !.conn = IF r = "ok" THEN "closed" ELSE left,
                         !.exc = IF r = "ok" THEN @ ELSE r,
                         !.pc = IF r = "ok" THEN "return" ELSE "except"]
    /\ UNCHANGED progVars

\* the finally block of get_connection: conn.close(), after the body or with
\* the body's exception in flight; an exception of close() takes its place,
\* and leaves the connection open or closed
TestClose ==
    /\ call.op = "test_connection" /\ call.pc \in {"exit", "finally"}
    /\ \E r \in DriverOutcomes, left \in {"open", "closed"} :
         call' = [call EXCEPT
                    !.calls = Append(@, [call |-> "close", r |-> r]),
                    !.conn = IF r = "ok" THEN "closed" ELSE left,
                    !.exc = IF r = "ok" THEN @ ELSE r,
                    !.pc = IF r = "ok" /\ call.exc = "none" THEN "return" ELSE "except"]
    /\ UNCHANGED progVars

\* return True, "Connected successfully"
TestReturn ==
    /\ call.op = "test_connection" /\ call.pc = "return"
    /\ call' = [call EXCEPT
                  !.pc = "done", !.outcome = "returned",
                  !.result = [success |-> TRUE, message |-> "Connected successfully"]]
    /\ UNCHANGED progVars

\* the except clauses
TestExcept ==
    /\ call.op = "test_connection" /\ call.pc = "except"
    /\ call' = IF Catches(call.exc)
               THEN [call EXCEPT !.pc = "done", !.outcome = "returned",
                                 !.result = TestConnectionFailure(call.exc)]
               ELSE [call EXCEPT !.pc = "done", !.outcome = "raised"]
    /\ UNCHANGED progVars

TestNext ==
    \/ TestEnter
    \/ TestConnect
    \/ TestProbe
    \/ TestClose
    \/ TestReturn
    \/ TestExcept

TestSpec == TestInit /\ [][TestNext]_vars

(***************************************************************************)
(* Properties of one execute_query call, read off the record of its driver *)
(* calls and puts.  The locals of a call live until its "done" put.        *)
(***************************************************************************)
Tr(e) == thr[e].trace
InCall(e) ==
    thr[e].pc \in {"db_begin", "connect", "stmt", "executing", "commit", "close",
                   "summary", "blocks", "exec_time", "total_rows", "done"}
AfterLoop(e) == thr[e].pc \in {"summary", "blocks", "exec_time", "total_rows", "done"}
AfterBlocks(e) == thr[e].pc \in {"exec_time", "total_rows", "done"}
DbsOf(e) == {thr[e].databases[k] : k \in 1..Len(thr[e].databases)}
DbPos(e, d) == CHOOSE k \in 1..Len(thr[e].databases) : thr[e].databases[k] = d

\* positions of the record with a given kind of event
At(e, kinds) == {k \in 1..Len(Tr(e)) : Tr(e)[k].ev \in kinds}
AtDb(e, kinds, d) == {k \in At(e, kinds) : Tr(e)[k].db = d}
Sends(e, d, i) == {k \in AtDb(e, {"send"}, d) : Tr(e)[k].i = i}

\* the connection is open at position k: opened before, not closed before
OpenAt(e, c, k) ==
    /\ \E j \in At(e, {"open"}) : j < k /\ Tr(e)[j].conn = c
    /\ \A j \in At(e, {"close"}) : j < k => Tr(e)[j].conn # c

\* the loop body of database d has ended / has ended through an outer handler
Processed(e, d) == AtDb(e, {"open_failed", "close"}, d) # {}
ProcessedBefore(e, d, k) == \E j \in AtDb(e, {"open_failed", "close"}, d) : j < k
Aborted(e, d) ==
    \E k \in 1..Len(Tr(e)) :
        /\ Tr(e)[k].db = d
        /\ \/ Tr(e)[k].ev = "open_failed"
           \/ Tr(e)[k].ev = "returned" /\ Tr(e)[k].res = "unexpected"
           \/ Tr(e)[k].ev \in {"commit", "close"} /\ Tr(e)[k].res # "ok"

\* the next driver call after position k, 0 if there is none yet
NextCall(e, k) ==
    LET later == {j \in (k + 1)..Len(Tr(e)) : Tr(e)[j].ev # "put"}
    IN IF later = {} THEN 0 ELSE CHOOSE j \in later : \A x \in later : j <= x

\* C1: statements run strictly sequentially: a statement that was sent returns
\* before anything else happens (at most one in flight); on each database the
\* statements are sent in the order 1, 2, ... on that database's open
\* connection, all of them before the commit; and a later database's first
\* statement is sent only after the earlier databases' statements returned.
C1_Sequential ==
    \A e \in ExecIds : InCall(e) =>
        LET t == Tr(e)
        IN /\ \A k \in At(e, {"send"}) :
                /\ k < Len(t) =>
                     /\ t[k + 1].ev = "returned"
                     /\ t[k + 1].db = t[k].db /\ t[k + 1].i = t[k].i
                /\ k = Len(t) => thr[e].pc = "executing"
                /\ OpenAt(e, t[k].conn, k)
                /\ \E j \in AtDb(e, {"open"}, t[k].db) : t[j].conn = t[k].conn
                /\ LET before == {j \in At(e, {"send"}) : j < k}
                   IN IF before = {} THEN t[k].i = 1
                      ELSE LET j == CHOOSE x \in before : \A y \in before : y <= x
                           IN \/ t[j].db = t[k].db /\ t[k].i = t[j].i + 1
                              \/ /\ DbPos(e, t[j].db) < DbPos(e, t[k].db)
                                 /\ t[k].i = 1
           /\ \A k \in At(e, {"commit"}) :
                \A i \in 1..NumStatements(thr[e]) :
                    \E j \in Sends(e, t[k].db, i) : j < k

C1_Witness ==
    \E e \in ExecIds :
        /\ thr[e].pc = "summary" /\ Len(thr[e].databases) = 2
        /\ NumStatements(thr[e]) = 2
        /\ Cardinality(At(e, {"send"})) = 4

\* C2: per database at most one commit; it is issued on the open connection
\* after every statement of the batch has returned, no statement follows it
\* and the close of that connection is the next driver call; a database whose
\* connection opened and whose statement loop ran to its end (statement errors
\* included) has exactly one, a database whose connection failed or whose
\* batch was left by an unexpected error has none.
C2_SingleCommit ==
    \A e \in ExecIds : InCall(e) =>
        LET t == Tr(e)
        IN /\ \A d \in DbsOf(e) : Cardinality(AtDb(e, {"commit"}, d)) <= 1
           /\ \A k \in At(e, {"commit"}) :
                /\ OpenAt(e, t[k].conn, k)
                /\ \A i \in 1..NumStatements(thr[e]) :
                     \E j \in AtDb(e, {"returned"}, t[k].db) :
                         j < k /\ t[j].i = i /\ t[j].res # "unexpected"
                /\ \A j \in AtDb(e, {"send"}, t[k].db) : j < k
                /\ k < Len(t) =>
                     t[k + 1].ev = "close" /\ t[k + 1].conn = t[k].conn
           /\ \A k \in At(e, {"close"}) :
                LET unexpected ==
                      \E j \in AtDb(e, {"returned"}, t[k].db) : t[j].res = "unexpected"
                    commits == {j \in AtDb(e, {"commit"}, t[k].db) : j < k}
                IN Cardinality(commits) = IF unexpected THEN 0 ELSE 1
           /\ \A k \in At(e, {"open_failed"}) : AtDb(e, {"commit"}, t[k].db) = {}

C2_Witness ==
    \E e \in ExecIds :
        /\ thr[e].pc = "summary"
        /\ \E k \in At(e, {"commit"}) :
             \E j \in AtDb(e, {"returned"}, Tr(e)[k].db) : Tr(e)[j].res = "db_error"
        /\ At(e, {"open_failed"}) # {}

C4_ErrorsDoNotStop ==
    \A e \in ExecIds : InCall(e) =>
        LET t == Tr(e)
            aborted == {d \in DbsOf(e) : Processed(e, d) /\ Aborted(e, d)}
            inner == {k \in At(e, {"returned"}) : t[k].res \in {"db_error", "nextset_error"}}
        IN /\ AfterLoop(e) =>
                \A d \in DbsOf(e) : AtDb(e, {"open", "open_failed"}, d) # {}
           /\ \A d \in aborted :
                \E b \in 1..Len(thr[e].all_results) :
                    /\ thr[e].all_results[b].db = d
                    /\ thr[e].all_results[b].kind \in {"connection_error", "unexpected_error"}
           /\ thr[e].failed_executions =
                Cardinality(inner) + NumStatements(thr[e]) * Cardinality(aborted)

C4_Witness ==
    \E e \in ExecIds :
        /\ thr[e].pc = "summary" /\ Len(thr[e].databases) = 2
        /\ AtDb(e, {"open_failed"}, thr[e].databases[1]) # {}
        /\ AtDb(e, {"open"}, thr[e].databases[2]) # {}

\* C5: a statement that raises a database error is logged as failed with its
\* error, and the next driver call is the next statement on the same
\* connection, or the commit after the last statement; unless a later
\* statement leaves the batch through an unexpected error, the batch ends
\* with the commit.
C5_StatementErrorContinues ==
    \A e \in ExecIds : InCall(e) =>
        LET t == Tr(e)
        IN \A k \in At(e, {"returned"}) :
             t[k].res \in {"db_error", "nextset_error"} =>
               /\ \E l \in 1..Len(thr[e].log) :
                    /\ thr[e].log[l].database = t[k].db
                    /\ thr[e].log[l].statement_num = t[k].i
                    /\ ~thr[e].log[l].success /\ thr[e].log[l].error
               /\ LET n == NextCall(e, k)
                  IN n # 0 =>
                       IF t[k].i < NumStatements(thr[e])
                       THEN /\ t[n].ev = "send" /\ t[n].db = t[k].db
                            /\ t[n].i = t[k].i + 1 /\ t[n].conn = t[k].conn
                       ELSE t[n].ev = "commit" /\ t[n].conn = t[k].conn
               /\ /\ Processed(e, t[k].db)
                  /\ \A j \in AtDb(e, {"returned"}, t[k].db) : t[j].res # "unexpected"
                  => \E c \in AtDb(e, {"commit"}, t[k].db) : c > k

C5_Witness ==
    \E e \in ExecIds :
        /\ thr[e].pc = "close"
        /\ \E k \in At(e, {"returned"}) :
             /\ Tr(e)[k].res = "db_error" /\ Tr(e)[k].i = 1
             /\ Sends(e, Tr(e)[k].db, 2) # {}
             /\ AtDb(e, {"commit"}, Tr(e)[k].db) # {}

\* C6: no retry: a (database, statement) pair is sent at most once and a
\* database's connection is attempted at most once, whatever failed.
C6_NoRetry ==
    \A e \in ExecIds : InCall(e) =>
        \A d \in DbsOf(e) :
            /\ Cardinality(AtDb(e, {"open", "open_failed"}, d)) <= 1
            /\ \A i \in 1..NumStatements(thr[e]) : Cardinality(Sends(e, d, i)) <= 1

C6_Witness ==
    \E e \in ExecIds :
        /\ thr[e].pc = "summary" /\ faults = 2
        /\ At(e, {"open_failed"}) # {}
        /\ \E k \in At(e, {"returned"}) : Tr(e)[k].res = "db_error"

\* C7: the report is the overall summary followed by exactly one block per
\* selected database.
C7_OneBlockPerDatabase ==
    \A e \in ExecIds : AfterBlocks(e) =>
        LET t == Tr(e)
            results == {k \in At(e, {"put"}) : t[k].res \in {"summary", "block"}}
            blocks == {k \in results : t[k].res = "block"}
        IN /\ \A k \in results : t[k].res = "summary" <=> (\A j \in results : k <= j)
           /\ Cardinality(results) = 1 + Len(thr[e].databases)
           /\ \A d \in DbsOf(e) : Cardinality({k \in blocks : t[k].db = d}) = 1

\* C9: no "result" is put before every selected database has been processed
\* (connection closed or failed); until then only "status" and "row_count".
C9_NoPartialResults ==
    \A e \in ExecIds : InCall(e) =>
        LET t == Tr(e)
        IN \A k \in At(e, {"put"}) :
             IF \A d \in DbsOf(e) : ProcessedBefore(e, d, k)
             THEN t[k].res \notin {"status", "row_count"}
             ELSE t[k].res \in {"status", "row_count"}

C9_Witness ==
    \E e \in ExecIds :
        /\ thr[e].pc = "exec_time" /\ Len(thr[e].databases) = 2
        /\ \E k \in At(e, {"put"}) : Tr(e)[k].res = "row_count"

(***************************************************************************)
(* Properties of an execution together with the UI thread.                 *)
(***************************************************************************)
\* C8: an execution cannot be cancelled and completes: only the thread's own
\* steps change its state, it puts at most one "done", a started call
\* eventually has put exactly one, and under the fair poll query_running
\* becomes False again with the run button re-enabled.
C8_Completes ==
    /\ [][\A e \in ExecIds :
            thr'[e] # thr[e] => ExecStep(e) \/ ExecFault(e)]_vars
    /\ [](\A e \in ExecIds : thr[e].done_puts <= 1)
    /\ \A e \in ExecIds : InCall(e) ~> (thr[e].done_puts = 1)
    /\ query_running ~> (~query_running /\ run_query_btn = "normal")

C8_Witness ==
    /\ ~query_running /\ run_query_btn = "normal"
    /\ thr[1].pc = "finished" /\ thr[1].done_puts = 1
    /\ faults > 0

\* C10: execution is gated by the validator: only a start that passed the
\* checks starts a thread, adds to the history or sets query_running, and
\* every execution started for a text that contains_dangerous_sql flags was
\* confirmed, so a flagged batch is sent to a database only after a yes.
C10_ValidatorGate ==
    /\ Len(query_history) = nexec
    /\ query_running => nexec >= 1
    /\ \A e \in ExecIds :
         /\ e > nexec => thr[e].pc = "idle" /\ ~confirmed[e]
         /\ e <= nexec /\ contains_dangerous_sql(get_query_text(query_history[e]))
              => confirmed[e]
         /\ InCall(e) =>
              /\ e <= nexec /\ thr[e].query = query_history[e]
              /\ At(e, {"send"}) # {} /\ contains_dangerous_sql(get_query_text(thr[e].query))
                   => confirmed[e]

C10_Witness ==
    \E e \in ExecIds :
        /\ InCall(e) /\ confirmed[e]
        /\ contains_dangerous_sql(get_query_text(thr[e].query))
        /\ At(e, {"send"}) # {}

(***************************************************************************)
(* Properties of the validator.                                            *)
(***************************************************************************)
UpperCase == <<"A","B","C","D","E","F","G","H","I","J","K","L","M","N","O","P","Q","R","S","T","U","V","W","X","Y","Z">>
LowerCase == <<"a","b","c","d","e","f","g","h","i","j","k","l","m","n","o","p","q","r","s","t","u","v","w","x","y","z">>
SameLetter(a, b) ==
    \/ a = b
    \/ \E k \in 1..26 : {a, b} = {UpperCase[k], LowerCase[k]}

\* the keyword occurs in the text at position p, letters compared without case
OccursAt(text, kw, p) ==
    /\ p + Len(kw) - 1 <= Len(text)
    /\ \A j \in 1..Len(kw) : SameLetter(text[p + j - 1], kw[j])

ClaimedKeywords ==
    { <<"d","r","o","p"," ","t","a","b","l","e">>,
      <<"d","r","o","p"," ","d","a","t","a","b","a","s","e">>,
      <<"t","r","u","n","c","a","t","e"," ","t","a","b","l","e">>,
      <<"d","e","l","e","t","e"," ","f","r","o","m">>,
      <<"a","l","t","e","r"," ","t","a","b","l","e">>,
      <<"u","p","d","a","t","e"," ">> }

\* C11: contains_dangerous_sql returns True exactly when one of the six
\* destructive keywords occurs in the text, compared case-insensitively.
C11_KeywordMatch ==
    call.op = "contains_dangerous_sql" /\ call.returned =>
        (call.result <=>
            \E kw \in ClaimedKeywords : \E p \in 1..Len(call.text) :
                OccursAt(call.text, kw, p))

C11_Witness ==
    /\ call.op = "contains_dangerous_sql" /\ call.returned /\ call.result
    /\ \A kw \in ClaimedKeywords : ~Contains(call.text, kw)

(***************************************************************************)
(* Properties of the application with its threads.                         *)
(***************************************************************************)
\* the thread of execution e has been spawned and has not returned
ThreadExists(e) == thr[e].pc \notin {"idle", "finished", "killed"}

\* the "done" message of execution e has not been consumed by check_queue
DoneOutstanding(e) ==
    \/ InCall(e)
    \/ \E k \in 1..Len(message_queue) :
          message_queue[k].type = "done" /\ message_queue[k].exec = e

\* query_running is True from the spawn until the "done" message is consumed
RunningUntilDone == \A e \in ExecIds : DoneOutstanding(e) => query_running

\* C12: at most one query-execution thread exists at any time, and
\* query_running stays True from the spawn of an execution until the UI
\* consumes its "done" message.
C12_OneThread ==
    /\ Cardinality({e \in ExecIds : ThreadExists(e)}) <= 1
    /\ RunningUntilDone

(***************************************************************************)
(* Properties of the result table.                                         *)
(***************************************************************************)
\* C13: for a statement that returned n rows the table shows the first
\* min(n, 100) rows in fetch order, the truncation note (with the total n)
\* appears exactly when n > 100, and the status line, the "row_count"
\* message and total_rows use n.
C13_DisplayCap ==
    call.op = "format_query_results" /\ call.pc = "returned" /\ call.description =>
        LET r == call.formatted_result
            shown == IF call.n <= 100 THEN call.n ELSE 100
        IN /\ r.data_rows = [k \in 1..shown |-> k]
           /\ r.truncation_note <=> call.n > 100
           /\ r.truncation_note => r.note_total = call.n
           /\ call.n > 0 => r.status_rows = call.n
           /\ call.row_count = call.n
           /\ call.row_count_msg = call.n
           /\ call.total_rows = call.total_before + call.n

C13_Witness ==
    /\ call.op = "format_query_results" /\ call.pc = "returned" /\ call.description
    /\ call.n > FETCH_BATCH
    /\ Len(call.formatted_result.data_rows) = 100
    /\ call.formatted_result.truncation_note

(***************************************************************************)
(* Properties of current_query_log.                                        *)
(***************************************************************************)
IsStatementEntry(x) == x.statement_num # 0
IsSend(x) == x.ev = "send"

\* how the statement sent at position k of the record returned
ReturnOf(e, k) == IF k < Len(Tr(e)) THEN Tr(e)[k + 1].res ELSE "in flight"

\* C14: when execute_query finishes, current_query_log['results'] holds
\* exactly one entry per statement that was sent (database, statement
\* number, success flag; error on failure), in execution order, plus one
\* entry with statement number 0 for each database whose processing was
\* aborted by a connection or unexpected error.
C14_LogComplete ==
    \A e \in ExecIds : AfterLoop(e) =>
        LET entries == SelectSeq(thr[e].log, IsStatementEntry)
            sent == {k \in 1..Len(Tr(e)) : IsSend(Tr(e)[k])}
            sends == SelectSeq(Tr(e), IsSend)
            nth(k) == CHOOSE p \in sent : Cardinality({q \in sent : q <= p}) = k
        IN /\ Len(entries) = Len(sends)
           /\ \A k \in 1..Len(sends) :
                /\ entries[k].database = sends[k].db
                /\ entries[k].statement_num = sends[k].i
                /\ entries[k].success <=> ReturnOf(e, nth(k)) = "ok"
                /\ entries[k].error <=> ~entries[k].success
           /\ \A d \in DbsOf(e) :
                Cardinality({l \in 1..Len(thr[e].log) :
                               /\ thr[e].log[l].database = d
                               /\ thr[e].log[l].statement_num = 0})
                  = IF Aborted(e, d) THEN 1 ELSE 0

(***************************************************************************)
(* Properties of the query history.                                        *)
(***************************************************************************)
\* C15: after any sequence of add_to_history calls on a history of at most
\* 50 entries, the history has at most 50 entries and they are the most
\* recent ones of everything loaded and added, in the order they were
\* added; an overflowing add evicts the oldest entry.
C15_RecentHistory ==
    call.op = "add_to_history" =>
        LET all == call.loaded \o call.added
            keep == IF Len(all) <= 50 THEN Len(all) ELSE 50
        IN /\ Len(call.query_history) <= 50
           /\ call.query_history = SubSeq(all, Len(all) - keep + 1, Len(all))

C15_Witness ==
    /\ call.op = "add_to_history"
    /\ Len(call.loaded) = 49 /\ Len(call.added) = 3
    /\ Len(call.query_history) = 50
    /\ call.query_history[1].at = 3

(***************************************************************************)
(* Properties of the files.                                                *)
(***************************************************************************)
\* C16: on every way the application can exit, save_history has written the
\* session's history before the process ends (unless the write itself
\* failed), so the file holds what the next start loads.
C16_HistoryPersisted ==
    ~alive /\ history_file.save # "failed" => history_file.content = query_history

\* C17: exporting the log of a completed execution always ends in a
\* reported outcome: save_query_log returns (True, message) after writing
\* header and log, or (False, message) when the dialog is cancelled or the
\* write fails, and never ends by raising an exception.
C17_ExportReported ==
    call.op = "save_query_log" /\ call.outcome \notin {"none", "no_results"} =>
        /\ call.outcome \in {"saved", "cancelled", "write_failed"}
        /\ call.success <=> call.outcome = "saved"
        /\ call.success => call.file = <<"header", QueryLogValue(current_query_log)>>

\* the thread of attempt a, past its put of "connection_success", takes its
\* last step in a running process
AfterSuccess(a) ==
    conn_thread[a] = "save_last_login" /\ conn_thread'[a] = "idle" /\ alive'

\* C18: the thread of an attempt that succeeded passes the server and username
\* of that attempt to save_last_login, and the stored last login changes only
\* there, to that attempt's: an attempt that failed leaves it as it was.
C18_LastLoginOfSuccess ==
    [][ /\ \A a \in ConnIds : AfterSuccess(a) => current_server_config = a
        /\ last_login' # last_login =>
              \E a \in ConnIds : AfterSuccess(a) /\ last_login' = a ]_vars

\* the driver call was made and returned
CallOk(c) == \E k \in 1..Len(call.calls) : call.calls[k] = [call |-> c, r |-> "ok"]

\* the connection to master was opened and the probe statement succeeded
ProbeOk == CallOk("connect") /\ \A k \in 1..Len(ProbeCalls) : CallOk(ProbeCalls[k])

\* the last driver call of test_connection was conn.close()
ClosedLast == call.calls[Len(call.calls)].call = "close"

TestOver == call.op = "test_connection" /\ call.pc = "done"

\* C19 as stated: test_connection never raises; it returns True exactly when
\* master was opened and the probe succeeded, False otherwise; the connection
\* it opened is closed when it returns.
C19_TestConnection ==
    TestOver =>
       /\ call.outcome = "returned"
       /\ call.result.success <=> ProbeOk
       /\ call.conn # "open"

\* C19, amended: test_connection never raises; it returns True exactly when
\* master was opened, the probe succeeded and close() did not raise, False
\* otherwise (a missing configuration included); close() is the last driver
\* call on every connection it opened, and the connection is closed whenever
\* close() returned.
C19_TestConnectionClose ==
    TestOver =>
       /\ call.outcome = "returned"
       /\ call.result.success <=> (ProbeOk /\ CallOk("close"))
       /\ ~call.server_config => ~call.result.success /\ call.calls = <<>>
       /\ CallOk("connect") => ClosedLast
       /\ CallOk("close") => call.conn = "closed"

\* the probe failed on an open connection, which was closed before False was returned
C19_Witness ==
    /\ TestOver /\ CallOk("connect") /\ ~ProbeOk
    /\ CallOk("close") /\ call.conn = "closed"
    /\ call.outcome = "returned" /\ ~call.result.success

\* the "status" messages of an execution, in the order they were put
IsStatusOf(e, m) == m.type = "status" /\ m.exec = e
StatusMessages(e) == SelectSeq(message_queue, LAMBDA m : IsStatusOf(e, m))

\* positions of the record where a "status" message was put
StatusPuts(e) == {k \in At(e, {"put"}) : Tr(e)[k].res = "status"}

\* databases whose loop body has begun with its put
Begun(e) ==
    IF AfterLoop(e) THEN Len(thr[e].databases)
    ELSE IF thr[e].pc = "db_begin" THEN thr[e].db_index - 1 ELSE thr[e].db_index

\* C20: with nothing taken from the channel, the "status" messages of an
\* execution are one per database begun, the j-th naming the j-th selected
\* database as (j/n); each connection attempt directly follows the put of its
\* database's message; after the loop there is one message per selected database.
C20_StatusPerDatabase ==
    \A e \in ExecIds :
       InCall(e) =>
          LET st == StatusMessages(e)
              n == Len(thr[e].databases)
          IN /\ Len(st) = Begun(e)
             /\ Cardinality(StatusPuts(e)) = Len(st)
             /\ \A j \in 1..Len(st) :
                  st[j].data = [db |-> thr[e].databases[j], pos |-> j, of |-> n]
             /\ \A k \in At(e, {"open", "open_failed"}) :
                  /\ k - 1 \in StatusPuts(e)
                  /\ Cardinality({j \in StatusPuts(e) : j < k}) = DbPos(e, Tr(e)[k].db)

\* two databases were selected, the connection to one failed, both were announced
C20_Witness ==
    /\ AfterLoop(1) /\ Len(thr[1].databases) = 2
    /\ At(1, {"open_failed"}) # {}
    /\ Len(StatusMessages(1)) = 2

\* positions of the record where a database's block was put
BlockPuts(e) == {k \in At(e, {"put"}) : Tr(e)[k].res = "block"}

\* C21: the blocks follow the overall summary in the reverse of the order of
\* execution: the first block is the last selected database's, and of two
\* blocks the one put later is of a database selected no later, normal and
\* error blocks alike.
C21_ReverseOrder ==
    \A e \in ExecIds : InCall(e) =>
        LET t == Tr(e)
            n == Len(thr[e].databases)
        IN /\ \A k \in BlockPuts(e) :
                /\ \E j \in At(e, {"put"}) : j < k /\ t[j].res = "summary"
                /\ (\A j \in BlockPuts(e) : k <= j) => DbPos(e, t[k].db) = n
                /\ \A j \in BlockPuts(e) : j < k => DbPos(e, t[j].db) >= DbPos(e, t[k].db)
           /\ AfterBlocks(e) => \A d \in DbsOf(e) : \E k \in BlockPuts(e) : t[k].db = d

\* two databases, the connection to one failed: an error block and a normal block were put
C21_Witness ==
    /\ AfterBlocks(1) /\ Len(thr[1].databases) = 2
    /\ At(1, {"open_failed"}) # {} /\ At(1, {"commit"}) # {}
    /\ Cardinality(BlockPuts(1)) = 2

\* the completion events of execute_query, in the order of its last five puts
CompletionOrder ==
    <<"exec_time", "total_rows", "done", "current_query_log", "enable_log_button">>

\* place of a message in one call's sequence of puts: progress, results, completion
Rank(m) ==
    IF m.type \in {"status", "row_count"} THEN 0
    ELSE IF m.type = "result" THEN 1
    ELSE 1 + (CHOOSE k \in 1..Len(CompletionOrder) : CompletionOrder[k] = m.type)

\* the messages of an execution still on the channel
Waiting(e) == SelectSeq(message_queue, LAMBDA m : m.exec = e)

\* every message of the execution still on the channel comes at or after type t
OnlyFrom(e, t) ==
    \A k \in 1..Len(Waiting(e)) : Rank(Waiting(e)[k]) >= Rank([type |-> t])

\* C22: the channel is first-in first-out and check_queue takes from its head,
\* so what waits on the channel and what the UI shows are a cut of one
\* sequence: results, then exec_time, total_rows, done, current_query_log,
\* enable_log_button, each once.  The waiting messages are in that order with
\* no completion event twice; once the UI has handled "done" nothing before
\* current_query_log waits, once it holds the log only enable_log_button may
\* wait, once the button is enabled nothing waits; a finished call has put
\* "done" and the log.
C22_CompletionOrder ==
    LET w == Waiting(1)
    IN /\ \A j, k \in 1..Len(w) :
            j < k => /\ Rank(w[j]) <= Rank(w[k])
                     /\ Rank(w[j]) > 1 => Rank(w[j]) < Rank(w[k])
       /\ ~query_running => OnlyFrom(1, "current_query_log")
       /\ current_query_log = 1 => ~query_running /\ OnlyFrom(1, "enable_log_button")
       /\ save_log_btn = "normal" => ~query_running /\ w = <<>> /\ thr[1].pc = "finished"
       /\ thr[1].pc = "finished" =>
            /\ query_running => \E k \in 1..Len(w) : w[k].type = "done"
            /\ thr[1].done_puts = 1
            /\ current_query_log = 0 /\ screen = "main" =>
                 \E k \in 1..Len(w) : w[k].type = "current_query_log"

\* the five completion events wait on the channel, in order, behind the results
C22_WitnessPut ==
    /\ thr[1].pc = "finished" /\ query_running /\ Len(message_queue) >= 7
    /\ [k \in 1..5 |-> message_queue[Len(message_queue) - 5 + k].type] = CompletionOrder

\* the UI has handled all five
C22_Witness ==
    /\ thr[1].pc = "finished" /\ message_queue = <<>>
    /\ ~query_running /\ current_query_log = 1 /\ save_log_btn = "normal"

\* C23: when the loop over the databases has ended, successful_executions +
\* failed_executions is (selected databases) x (statements), whatever the
\* outcomes of the driver calls were.
C23_CountersConsistent ==
    \A e \in ExecIds : AfterLoop(e) =>
        thr[e].successful_executions + thr[e].failed_executions
           = Len(thr[e].databases) * NumStatements(thr[e])

\* the blocks of the report that belong to database d
BlocksOf(e, d) == {k \in 1..Len(thr[e].all_results) : thr[e].all_results[k].db = d}

\* C24: a database whose statements all ran (its commit was reached) has
\* exactly one block in the report, and that block holds the result of each
\* of its statements, also when the commit or the close then raised.
C24_LateFailure ==
    \A e \in ExecIds : AfterLoop(e) =>
        \A d \in DbsOf(e) :
            AtDb(e, {"commit"}, d) # {} =>
               /\ Cardinality(BlocksOf(e, d)) = 1
               /\ \A k \in BlocksOf(e, d) :
                    Len(thr[e].all_results[k].results) = NumStatements(thr[e])

\* the keyword is written in the text from position p on: its letters in any
\* case, each blank of the keyword as one or more blanks, tabs or newlines
RECURSIVE WrittenFrom(_, _, _, _)
WrittenFrom(text, p, kw, j) ==
    IF j > Len(kw) THEN TRUE
    ELSE IF p > Len(text) THEN FALSE
    ELSE IF kw[j] = " "
         THEN /\ IsSpace(text[p])
              /\ WrittenFrom(text, p + 1, kw, j + 1) \/ WrittenFrom(text, p + 1, kw, j)
         ELSE /\ SameLetter(text[p], kw[j])
              /\ WrittenFrom(text, p + 1, kw, j + 1)

WritesDestructive(text) ==
    \E kw \in ClaimedKeywords : \E p \in 1..Len(text) : WrittenFrom(text, p, kw, 1)

\* C25: a text in which one of the six destructive statements is written, in
\* any letter case and with any whitespace between or after the keyword's
\* words, is flagged by contains_dangerous_sql, the one test by which
\* start_query_thread decides to ask for confirmation before it executes.
C25_FormattingCannotBypass ==
    call.op = "contains_dangerous_sql" /\ call.returned =>
        (WritesDestructive(call.text) => call.result)

\* the step adds to the history, counts an execution or starts an executor thread
TouchesStart ==
    \/ query_history' # query_history
    \/ nexec' # nexec
    \/ \E e \in ExecIds : thr[e].pc = "idle" /\ thr'[e].pc # "idle"

\* the step is a start that passed every check of start_query_thread: one
\* thread started for the text and the selection, the text added once
PassedStart ==
    LET e == nexec + 1
        q == thr'[e].query
    IN /\ nexec' = e
       /\ sql_connector /\ ~query_running
       /\ get_selected_databases # <<>> /\ get_query_text(q) # <<>>
       /\ contains_dangerous_sql(get_query_text(q)) => confirmed'[e]
       /\ thr[e].pc = "idle" /\ thr'[e].pc = "db_begin"
       /\ thr'[e].databases = get_selected_databases
       /\ \A o \in ExecIds \ {e} : thr'[o] = thr[o]
       /\ query_history' = Append(query_history, q)
       /\ query_running' /\ run_query_btn' = "disabled" /\ save_log_btn' = "disabled"

\* C26: the history grows, an execution is counted and an executor thread is
\* started only together, in a step of start_query_thread that passed all five
\* checks (connected, no query running, a database selected, a text, a
\* destructive text confirmed); the text is appended once.  No other step, a
\* start that returns early included, does any of it.
C26_RejectedStartChangesNothing == [][TouchesStart => PassedStart]_vars

\* an execution was started and runs: the history holds its text, and a
\* further start returns early
C26_Witness ==
    /\ nexec = 1 /\ query_running /\ Len(query_history) = 1
    /\ thr[1].pc = "summary" /\ thr[1].query = query_history[1]
    /\ \A q \in QueryIds, answer \in BOOLEAN : StartRejectedBy(q, answer)

\* C27: while the main screen shows the Export Results button enabled, no
\* query is running and current_query_log is the log of the execution started
\* last.
C27_ExportButton ==
    screen = "main" /\ save_log_btn = "normal" =>
        ~query_running /\ current_query_log = nexec

\* C28: while the connection screen is shown (before the first connection,
\* and from a confirmed disconnect until the next connection succeeds)
\* query_executor and current_query_log are None: no message of an execution
\* started before the disconnect sets the log.  (sql_connector and
\* current_server_config are set again by the next connect_to_server.)
C28_DisconnectIsolates ==
    screen = "connection" => query_executor = 0 /\ current_query_log = 0

(***************************************************************************)
(* C29: with two or more databases listed, a click on the label of         *)
(* database d toggles d and no other database: the selection is at every   *)
(* moment the databases whose label shows the checked symbol, in list      *)
(* order, and an execution that starts runs against exactly these.         *)
(***************************************************************************)
\* the databases whose label shows the checked symbol, in list order
CheckedLabels == SelectedFrom(db_checkbuttons, 1)

C29_ClickTogglesOwnDatabase ==
    /\ screen = "main" /\ db_listed /\ Len(db_vars) >= 2
          => get_selected_databases = CheckedLabels
    /\ \A e \in ExecIds :
          thr[e].pc = "db_begin" /\ thr[e].db_index = 1 /\ query_executor = e
              /\ Len(db_vars) >= 2
          => thr[e].databases = CheckedLabels

(***************************************************************************)
(* C30: connection attempts form a simple state machine.                   *)
(***************************************************************************)
\* the threads of _attempt_connection_thread that have not returned
AttemptsInFlight == { a \in ConnIds : conn_thread[a] # "idle" }

\* an attempt has started and its message has not been consumed
AttemptPending ==
    \/ \E a \in ConnIds : conn_thread[a] = "test"
    \/ \E i \in 1..Len(message_queue) :
          message_queue[i].type \in {"connection_success", "connection_error"}

\* the step starts a connection-attempt thread
StartsAttempt ==
    \/ nconnect' # nconnect
    \/ \E a \in ConnIds : conn_thread[a] = "idle" /\ conn_thread'[a] # "idle"

\* the step is check_queue consuming a "connection_error" message
ConsumesConnectionError ==
    /\ alive' /\ message_queue' = <<>>
    /\ \E i \in 1..Len(message_queue) : message_queue[i].type = "connection_error"

\* the step starts an executor thread
StartsExecutor ==
    \/ nexec' # nexec
    \/ \E e \in ExecIds : thr[e].pc = "idle" /\ thr'[e].pc # "idle"

\* C30: connect_to_server starts an attempt only with a server and a username;
\* at most one connection-attempt thread is in flight at a time, the Connect
\* button being disabled from the start of an attempt until its message is
\* consumed; a failed attempt resets current_server_config to None and
\* re-enables Connect; an executor thread is started only on the main screen,
\* that is after an attempt succeeded and before the following disconnect.
C30_ConnectionStateMachine ==
    /\ [](Cardinality(AttemptsInFlight) <= 1)
    /\ [](AttemptPending => connect_button = "disabled")
    /\ [][StartsAttempt => ConnectToServer]_vars
    /\ [][ConsumesConnectionError =>
             current_server_config' = 0 /\ connect_button' = "normal"]_vars
    /\ [][StartsExecutor =>
             screen = "main" /\ sql_connector /\ current_server_config # 0]_vars

====
